---- MODULE Spec2Model ----
(***************************************************************************)
(* A model of the streaming resampling adapter of zaf/resample             *)
(* (src/resample.go): the Resampler object, its New, Write, Reset, Close   *)
(* and flush operations, the libsoxr engine it drives through cgo and the  *)
(* io.Writer it forwards converted audio to.                               *)
(*                                                                         *)
(* The engine and the sink are external: the model keeps what the adapter  *)
(* can observe of them (the engine's read/done counts and error string,    *)
(* the sink's accepted byte count and error) and draws those outcomes      *)
(* nondeterministically.                                                   *)
(***************************************************************************)
EXTENDS Integers, Sequences, FiniteSets, TLC

(***************************************************************************)
(* Program constants, src/resample.go:38-53.                               *)
(***************************************************************************)
Quick == 0
LowQ == 1
MediumQ == 2
HighQ == 4
VeryHighQ == 6
F32 == 0
F64 == 1
I32 == 2
I16 == 3
byteLen == 8
\* framesOut of flush, src/resample.go:216
FlushFramesOut == 40960

NIL == "nil"
NoErr == "<nil>"
ErrNilWriter == "io.Writer is nil"
ErrRates == "Invalid input or output sampling rates"
ErrChannels == "Invalid channels number"
ErrQuality == "Invalid quality setting"
ErrFormat == "Invalid format setting"
ErrClosed == "soxr resampler is nil"
ErrIncomplete == "Incomplete input frame data"
ErrNotEnough == "Not enough input to generate output"
\* an error string reported by libsoxr, and an error returned by the sink
ErrSoxr == "soxr error"
ErrSink == "sink error"

(***************************************************************************)
(* float64 arithmetic.  Write computes its frame and byte counts as        *)
(*     int(float64(n) * (x / y))                                           *)
(* with x, y the two sampling rates.  A float64 is modelled by its 53-bit  *)
(* significand M, kept in three limbs m2 * 2^36 + m1 * 2^18 + m0 with      *)
(* 2^52 <= M < 2^53, and its exponent e: the value is M * 2^(e - 52).      *)
(* Division and multiplication round to nearest, ties to even, as IEEE 754 *)
(* prescribes; the conversion to int truncates.                            *)
(***************************************************************************)
Pow2(k) == 2 ^ k

\* the two low limbs hold 18 bits each, the top limb 2^16 + 16 quotient bits
Limb == Pow2(18)
TopLimb == Pow2(16)

\* the largest y with b * 2^y <= a   (a >= b >= 1)
RECURSIVE ShiftUp(_, _)
ShiftUp(a, b) == IF 2 * b <= a THEN 1 + ShiftUp(a, 2 * b) ELSE 0

\* the number of bits of t >= 1
RECURSIVE BitLen(_)
BitLen(t) == IF t <= 1 THEN 1 ELSE 1 + BitLen(t \div 2)

\* the significand plus one unit in the last place, renormalised on overflow
FIncrement(f) ==
    IF f.m0 + 1 < Limb THEN [f EXCEPT !.m0 = f.m0 + 1]
    ELSE IF f.m1 + 1 < Limb THEN [f EXCEPT !.m0 = 0, !.m1 = f.m1 + 1]
    ELSE IF f.m2 + 1 < 2 * TopLimb THEN [f EXCEPT !.m0 = 0, !.m1 = 0, !.m2 = f.m2 + 1]
    ELSE [m2 |-> TopLimb, m1 |-> 0, m0 |-> 0, e |-> f.e + 1]

\* round to nearest even: rem is what was cut off, half is half a unit
FRound(f, rem, half) ==
    IF rem > half \/ (rem = half /\ half > 0 /\ f.m0 % 2 = 1)
    THEN FIncrement(f) ELSE f

\* float64(a) / float64(b) for integers a, b >= 1
FDiv(a, b) ==
    LET up == IF a >= b THEN ShiftUp(a, b) ELSE 0
        dn == IF a >= b THEN 0 ELSE ShiftUp(2 * b - 1, a)
        den == b * Pow2(up)
        num == a * Pow2(dn)
        \* now den <= num < 2 * den: long division, 16 + 18 + 18 bits
        r0 == num - den
        q2 == (r0 * TopLimb) \div den
        r2 == (r0 * TopLimb) % den
        q1 == (r2 * Limb) \div den
        r1 == (r2 * Limb) % den
        q0 == (r1 * Limb) \div den
        rr == (r1 * Limb) % den
    IN  FRound([m2 |-> TopLimb + q2, m1 |-> q1, m0 |-> q0, e |-> up - dn],
               2 * rr, den)

\* float64(n) * f for an integer n >= 1 (float64(n) is exact)
FMul(n, f) ==
    LET p0 == n * f.m0
        p1 == n * f.m1 + (p0 \div Limb)
        top == n * f.m2 + (p1 \div Limb)
        l0 == p0 % Limb
        l1 == p1 % Limb
        s == BitLen(top) - 17
        cut == Pow2(s)
        keep == Limb \div cut
    IN  FRound([m2 |-> top \div cut,
                m1 |-> (l1 \div cut) + (top % cut) * keep,
                m0 |-> (l0 \div cut) + (l1 % cut) * keep,
                e |-> f.e + s],
               2 * (l0 % cut), cut)

\* int(f): truncation toward zero of a positive float64 below 2^30
FTrunc(f) ==
    IF f.e < 0 THEN 0
    ELSE LET t == 52 - f.e
         IN  IF t >= 36 THEN f.m2 \div Pow2(t - 36)
             ELSE f.m2 * Pow2(36 - t) + (f.m1 \div Pow2(t - 18))

\* int(float64(n) * q) for a float64 q > 0 and an integer n >= 0,
\* src/resample.go:177 and :197
ScaleInt(n, q) == IF n = 0 THEN 0 ELSE FTrunc(FMul(n, q))

(***************************************************************************)
(* Bounds and input sets.                                                  *)
(***************************************************************************)
\* the largest number of whole frames in one Write buffer
MaxFrames == 2
\* the trailing fragments, in bytes, of a Write buffer: none, and one byte
\* less than a frame
Fragments(rr) == {0, rr.frameSize * rr.channels - 1}

\* one conversion, from the first Write to the Close: the largest number
\* of frames in one Write, the largest number of frames in all, and the
\* largest number of output frames the engine keeps to itself while more
\* input may follow
MaxChunk == 3
MaxTotal == 18
MaxLatency == 3

\* the writers a caller passes to New and Reset
Sinks == {"w1", "w2"}
\* (inputRate, outputRate) pairs passed to New; only the quotient of the
\* two rates enters the arithmetic, so 8000/4000 is drawn as 2/1
RatePairs == {<<1, 1>>, <<2, 1>>, <<3, 2>>, <<1, 49>>, <<49, 1>>,
              <<0, 1>>, <<1, 0>>, <<0 - 1, 1>>}
ChannelArgs == {0, 1, 2}
\* the channel counts of the calls of New taken alone: a negative one too
AnyChannelArgs == ChannelArgs \cup {0 - 1}
FormatArgs == {F32, F64, I32, I16, 10}
QualityArgs == {0 - 10, Quick, LowQ, MediumQ, 3, HighQ, VeryHighQ, 10}

\* the outcomes drawn for the engine and the sink: all of what was asked,
\* all but one and (but for the frames read) none
ReadChoices(framesIn) == {x \in {framesIn - 1, framesIn} : x >= 0}
DoneChoices(framesOut) == {x \in {0, framesOut - 1, framesOut} : x >= 0}
AcceptChoices(offered) == {x \in {0, offered - 1, offered} : x >= 0}
FlushDoneChoices == {0, 1, FlushFramesOut}
\* the frames the engine still holds after the process call of a flush that
\* produced done frames: none unless the call filled the whole buffer
FlushLeftChoices(done) == IF done = FlushFramesOut THEN {0, 1} ELSE {0}

(***************************************************************************)
(* State.                                                                  *)
(*   r           the Resampler struct (src/resample.go:56-64)              *)
(*   constructed whether New has returned a non-nil *Resampler             *)
(*   engine      the libsoxr object behind r.resampler                     *)
(*   last        the most recent call: its arguments, what the engine and  *)
(*               the sink reported during it, and what it returned         *)
(*   running     for each goroutine that calls the methods of r without    *)
(*               serialization, the call it is in and the statement it has *)
(*               reached                                                   *)
(*   overlapped  whether a call has begun while another was in progress    *)
(*   tally       the running totals of one conversion: the input bytes     *)
(*               Write has reported consumed, the frames the engine has    *)
(*               read and produced, the bytes the sink has accepted        *)
(*   variant     the Resampler of src/unnamed/part_000, its engine and its *)
(*               most recent call, when it is run beside r on the same     *)
(*               calls                                                     *)
(***************************************************************************)
VARIABLES r, constructed, engine, last, running, overlapped, tally, variant

vars == <<r, constructed, engine, last, running, overlapped, tally, variant>>

NoTally ==
    [submitted |-> 0, taken |-> 0, given |-> 0, delivered |-> 0,
     failed |-> FALSE]

\* the goroutines, and one that is in no call
Threads == {1, 2}
Idle == [op |-> "idle", at |-> "idle", writer |-> NIL]

NoCall ==
    [op |-> "none", len |-> 0, writer |-> NIL, quality |-> 0,
     inRate |-> 0, outRate |-> 0, channels |-> 0, format |-> 0,
     stream |-> FALSE,
     n |-> 0, err |-> NoErr, soxErr |-> NoErr,
     plen |-> 0, framesIn |-> 0, ilen |-> 0, framesOut |-> 0,
     read |-> 0, done |-> 0, offered |-> 0, written |-> 0,
     sinkErr |-> NoErr, dest |-> NIL, left |-> 0, calls |-> <<>>,
     allocated |-> {}, freed |-> <<>>, aborted |-> FALSE,
     panicked |-> FALSE]

\* the Resampler struct before New has filled it
NoResampler ==
    [resampler |-> NIL, inRate |-> 0, outRate |-> 0, channels |-> 0,
     frameSize |-> 0, stream |-> FALSE, destination |-> NIL]

\* an engine that has not been created
NoEngine == [created |-> 0, deleted |-> 0, ended |-> FALSE, fault |-> FALSE]

\* no Resampler of part_000 runs beside r
NoVariant == [r |-> NoResampler, engine |-> NoEngine, last |-> NoCall]

Init ==
    /\ r = [resampler |-> NIL, inRate |-> 0, outRate |-> 0, channels |-> 0,
            frameSize |-> 0, stream |-> FALSE, destination |-> NIL]
    /\ constructed = FALSE
    /\ engine = [created |-> 0, deleted |-> 0, ended |-> FALSE, fault |-> FALSE]
    /\ last = NoCall
    /\ running = [t \in Threads |-> Idle]
    /\ overlapped = FALSE
    /\ tally = NoTally
    /\ variant = NoVariant

(***************************************************************************)
(* New, src/resample.go:76-125.                                            *)
(***************************************************************************)
\* a New without the check of the format
NewErrorFormatUnchecked(writer, inputRate, outputRate, channels, format, quality) ==
    IF writer = NIL THEN ErrNilWriter
    ELSE IF inputRate <= 0 \/ outputRate <= 0 THEN ErrRates
    ELSE IF channels = 0 THEN ErrChannels
    ELSE IF quality < 0 \/ quality > 6 THEN ErrQuality
    ELSE NoErr

\* a New that checks the channels before the rates
NewErrorChannelsFirst(writer, inputRate, outputRate, channels, format, quality) ==
    IF writer = NIL THEN ErrNilWriter
    ELSE IF channels = 0 THEN ErrChannels
    ELSE IF inputRate <= 0 \/ outputRate <= 0 THEN ErrRates
    ELSE IF quality < 0 \/ quality > 6 THEN ErrQuality
    ELSE IF format \notin {F64, F32, I32, I16} THEN ErrFormat
    ELSE NoErr

\* a New that takes the qualities up to MediumQ only
NewErrorLowQualities(writer, inputRate, outputRate, channels, format, quality) ==
    IF writer = NIL THEN ErrNilWriter
    ELSE IF inputRate <= 0 \/ outputRate <= 0 THEN ErrRates
    ELSE IF channels = 0 THEN ErrChannels
    ELSE IF quality < 0 \/ quality > MediumQ THEN ErrQuality
    ELSE IF format \notin {F64, F32, I32, I16} THEN ErrFormat
    ELSE NoErr

\* the parameter checks, in the order of the code; NoErr when all pass
NewError(writer, inputRate, outputRate, channels, format, quality) ==
    IF writer = NIL THEN ErrNilWriter
    ELSE IF inputRate <= 0 \/ outputRate <= 0 THEN ErrRates
    ELSE IF channels = 0 THEN ErrChannels
    ELSE IF quality < 0 \/ quality > 6 THEN ErrQuality
    ELSE IF format \notin {F64, F32, I32, I16} THEN ErrFormat
    ELSE NoErr

\* a New that keeps the sample size in bits
SizeOfInBits(format) ==
    IF format = F64 THEN 64
    ELSE IF format \in {F32, I32} THEN 32
    ELSE 16

\* the switch on format, src/resample.go:91-100
SizeOf(format) ==
    IF format = F64 THEN 64 \div byteLen
    ELSE IF format \in {F32, I32} THEN 32 \div byteLen
    ELSE 16 \div byteLen

\* whether the process aborts in C.free(unsafe.Pointer(soxErr)),
\* src/resample.go:110, 123, 207, 228.  A soxr_error_t is a char const *:
\* null when there is no error, else the address of a string constant of
\* libsoxr, which malloc never returned.  The free of the null pointer does
\* nothing; the free of a string constant is undefined, and the allocator
\* aborts the process in it or returns.
FreeAborts(soxErr) == IF soxErr = NoErr THEN {FALSE} ELSE BOOLEAN

\* no call is made in a process that has aborted
ProcessRuns == ~last.aborted

\* New with its channels argument drawn from channelArgs
NewWith(channelArgs) ==
    /\ last.op = "none"
    /\ \E writer \in {NIL, "w1"}, rates \in RatePairs, channels \in channelArgs,
          format \in FormatArgs, quality \in QualityArgs, stream \in BOOLEAN,
          soxErr \in {NoErr, ErrSoxr} :
        LET verr == NewError(writer, rates[1], rates[2], channels, format, quality)
            call == [NoCall EXCEPT !.op = "New", !.writer = writer,
                                   !.quality = quality, !.inRate = rates[1],
                                   !.outRate = rates[2], !.channels = channels,
                                   !.format = format, !.stream = stream]
        IN  IF verr # NoErr
            THEN /\ last' = [call EXCEPT !.err = verr]
                 /\ UNCHANGED <<r, constructed, engine>>
            ELSE IF soxErr # NoErr
            THEN \* soxr_create failed: no engine, no Resampler
                 /\ \E aborted \in FreeAborts(soxErr) :
                       last' = [call EXCEPT !.err = soxErr, !.soxErr = soxErr,
                                            !.calls = <<"create">>,
                                            !.aborted = aborted]
                 /\ UNCHANGED <<r, constructed, engine>>
            ELSE /\ r' = [resampler |-> "soxr", inRate |-> rates[1],
                          outRate |-> rates[2], channels |-> channels,
                          frameSize |-> SizeOf(format), stream |-> stream,
                          destination |-> writer]
                 /\ constructed' = TRUE
                 /\ engine' = [engine EXCEPT !.created = @ + 1]
                 /\ last' = [call EXCEPT !.calls = <<"create">>]
    /\ UNCHANGED <<running, overlapped, tally, variant>>

New == NewWith(ChannelArgs)

\* New called with any channel count
NewAny == NewWith(AnyChannelArgs)

\* a Resampler whose methods never look at the handle
NeverClosed(rr) == FALSE

\* the check that opens Reset, Close and Write, src/resample.go:130, 145, 163
IsClosed(rr) == rr.resampler = NIL

\* the C buffers a Write allocates once its checks have passed,
\* src/resample.go:181-182, and the one a flush allocates, :217
WriteBuffers == {"dataIn", "dataOut"}
FlushBuffers == {"dataOut"}

\* a Write that allocates its buffers before it checks its input
AllocatedBeforeChecks == {"dataIn", "dataOut"}

\* the C buffers a Write holds when a check of its input makes it return,
\* src/resample.go:174-180: none, the allocations come after the checks
HeldAtChecks == {}

\* whether the Resampler has no sink: r.destination is the nil interface,
\* on which the call of Write at src/resample.go:195 and :224 panics
NoSink(rr) == rr.destination = NIL

\* the buffers of a call that a panic has left before its cleanup label
Unfreed(buffers) == [b \in buffers |-> 0]

\* a cleanup that an engine error returns past
CleanupSkippedOnError(buffers, soxErr) ==
    [b \in buffers |-> IF soxErr # NoErr THEN 0 ELSE 1]

\* how many times each buffer is freed before the call returns: the cleanup
\* label is reached by the goto of the engine-error path and by falling
\* through, src/resample.go:193, 204-206 and :222, 226-227
Cleanup(buffers, soxErr) == [b \in buffers |-> 1]

\* a Write that does not look for an empty buffer
NeverEmpty(len) == FALSE

\* the check for an empty buffer, src/resample.go:166
IsEmpty(len) == len = 0

(***************************************************************************)
(* Write, src/resample.go:160-209.                                         *)
(***************************************************************************)
FrameBytes(rr) == rr.frameSize * rr.channels

\* a Write that fills the trailing fragment up to a whole frame
PadFragment(len, rr) ==
    ((len + FrameBytes(rr) - 1) \div FrameBytes(rr)) * FrameBytes(rr)

\* the buffer without its trailing fragment, src/resample.go:169-172
DropFragment(len, rr) == len - (len % FrameBytes(rr))

\* src/resample.go:173
FramesIn(plen, rr) == (plen \div rr.frameSize) \div rr.channels

\* the quotient of line 177 used again in line 197
InPerOutSwapped(rr) == FDiv(rr.outRate, rr.inRate)

\* the two quotients of the rates, src/resample.go:177 and :197
OutPerIn(rr) == FDiv(rr.outRate, rr.inRate)
InPerOut(rr) == FDiv(rr.inRate, rr.outRate)

\* src/resample.go:177
FramesOut(framesIn, outPerIn) == ScaleInt(framesIn, outPerIn)

\* a Write that notifies the end of input in both modes
InputLenAlwaysFinal(framesIn, rr) == (0 - framesIn) - 1

\* the input length handed to soxr_process: ^framesIn when not streaming,
\* src/resample.go:186-189
InputLen(framesIn, rr) == IF rr.stream THEN framesIn ELSE (0 - framesIn) - 1

\* the bytes malloc is asked for the output buffer, src/resample.go:182
OutputBufferBytes(framesOut, rr) == framesOut * rr.channels * rr.frameSize

\* a Write that hands the sink one frame more than the engine produced
OfferedOneMore(done, rr) == (done + 1) * rr.channels * rr.frameSize

\* the bytes of the output buffer handed to the sink, src/resample.go:195
Offered(done, rr) == done * rr.channels * rr.frameSize

\* the count computed from what the sink accepted, src/resample.go:197
Scaled(written, inPerOut) == ScaleInt(written, inPerOut)

\* the condition of line 200 without its err == nil
ConsumedDespiteError(scaled, werr, ilen, read, framesOut, done, plen, rr) ==
    IF (ilen = read /\ framesOut = done) \/ rr.stream THEN plen ELSE scaled

\* the count returned after the sink write: scaled is the count of line 197,
\* replaced by the buffer length under the condition of src/resample.go:200
Consumed(scaled, werr, ilen, read, framesOut, done, plen, rr) ==
    IF werr = NoErr /\ ((ilen = read /\ framesOut = done) \/ rr.stream)
    THEN plen
    ELSE scaled

\* the error a sink returns with an accepted count, by the io.Writer
\* contract: non-nil whenever it accepted less than it was offered
SinkErrors(written, offered) ==
    IF written < offered THEN {ErrSink} ELSE {NoErr, ErrSink}

\* the numbers of whole frames in the buffers passed to Write: the short
\* ones, and one holding as many frames as the input rate counts, which
\* the rates scale to the output rate
FrameCounts(rr) == (0..MaxFrames) \cup {rr.inRate}

\* lengths of the buffers passed to Write
WriteLens(rr) ==
    {k * FrameBytes(rr) + f : k \in FrameCounts(rr), f \in Fragments(rr)}

\* the engine after an operation on it: an operation on a released engine
\* is a fault
Used(eng) == [eng EXCEPT !.fault = @ \/ eng.deleted > 0]

(***************************************************************************)
(* The engine and the sink of one conversion.  The engine owes             *)
(* floor(taken * outRate / inRate) output frames for the taken input       *)
(* frames it has read.  Of the frames it is offered it reads all, or no    *)
(* more than the output it is asked for needs; while more input may follow *)
(* it keeps up to MaxLatency of the frames it owes, and it hands out all   *)
(* it owes, as far as the buffer goes, when it is told that the input has  *)
(* ended or is called without input.  The sink accepts all it is offered.  *)
(***************************************************************************)
\* floor(x * a / b)
FloorScale(x, a, b) == (x * a) \div b

Min(a, b) == IF a <= b THEN a ELSE b
\* ceil(x * a / b)
CeilScale(x, a, b) == (x * a + b - 1) \div b

\* the output frames the engine owes once it has read taken frames
Owed(taken) == FloorScale(taken, r.outRate, r.inRate) - tally.given

IdealRead(framesIn, framesOut) ==
    {framesIn, Min(framesIn, CeilScale(framesOut, r.inRate, r.outRate))}

\* the frames it produces when it has read read of the framesIn frames
IdealDoneAfter(read, framesIn, framesOut) ==
    LET owed == Owed(tally.taken + read)
    IN  IF InputLen(framesIn, r) < 0
        THEN {Min(framesOut, owed)}
        ELSE {Min(framesOut, owed - kept) : kept \in {0, Min(MaxLatency, owed)}}

IdealDone(framesIn, framesOut) ==
    UNION {IdealDoneAfter(read, framesIn, framesOut) :
              read \in IdealRead(framesIn, framesOut)}

AllAccepted(offered) == {offered}
NoSinkError(written, offered) == {NoErr}

\* what the engine and the sink may report during a Write that offers
\* framesIn frames and asks for framesOut: any of the outcomes drawn above
\* or, in a conversion, those of the engine and the sink just described
EngineErrors(converting) == IF converting THEN {NoErr} ELSE {NoErr, ErrSoxr}
Reads(converting, framesIn, framesOut) ==
    IF converting THEN IdealRead(framesIn, framesOut)
    ELSE ReadChoices(framesIn)
Dones(converting, framesIn, framesOut) ==
    IF converting THEN IdealDone(framesIn, framesOut)
    ELSE DoneChoices(framesOut)
Accepts(converting, offered) ==
    IF converting THEN AllAccepted(offered) ELSE AcceptChoices(offered)
Errs(converting, written, offered) ==
    IF converting THEN NoSinkError(written, offered)
    ELSE SinkErrors(written, offered)

\* Write of a buffer of one of the lengths lens, in a conversion or not
WriteWith(lens, converting) ==
    /\ constructed /\ ProcessRuns
    /\ LET outPerIn == OutPerIn(r)
           inPerOut == InPerOut(r)
       IN \E len \in lens :
        LET call == [NoCall EXCEPT !.op = "Write", !.len = len]
            plen == DropFragment(len, r)
            framesIn == FramesIn(plen, r)
            framesOut == FramesOut(framesIn, outPerIn)
            ilen == InputLen(framesIn, r)
            sent == [call EXCEPT !.plen = plen, !.framesIn = framesIn,
                                 !.ilen = ilen, !.framesOut = framesOut,
                                 !.calls = <<"process">>,
                                 !.allocated = WriteBuffers]
        IN  IF IsClosed(r)
            THEN /\ last' = [call EXCEPT !.err = ErrClosed]
                 /\ UNCHANGED <<r, constructed, engine>>
            ELSE IF IsEmpty(len)
            THEN /\ last' = call
                 /\ UNCHANGED <<r, constructed, engine>>
            ELSE IF framesIn = 0
            THEN /\ last' = [call EXCEPT !.plen = plen, !.err = ErrIncomplete,
                                         !.allocated = HeldAtChecks]
                 /\ UNCHANGED <<r, constructed, engine>>
            ELSE IF framesOut = 0
            THEN /\ last' = [call EXCEPT !.plen = plen, !.framesIn = framesIn,
                                         !.err = ErrNotEnough,
                                         !.allocated = HeldAtChecks]
                 /\ UNCHANGED <<r, constructed, engine>>
            ELSE /\ engine' = [Used(engine) EXCEPT !.ended = @ \/ ilen < 0]
                 /\ UNCHANGED <<r, constructed>>
                 /\ \/ \* soxr_process reports an error
                       \E soxErr \in EngineErrors(converting) \ {NoErr} :
                       \E aborted \in FreeAborts(soxErr) :
                       last' = [sent EXCEPT !.err = soxErr, !.soxErr = soxErr,
                                    !.freed = Cleanup(WriteBuffers, soxErr),
                                    !.aborted = aborted]
                    \/ \E done \in Dones(converting, framesIn, framesOut) :
                        LET offered == Offered(done, r)
                        IN  IF NoSink(r)
                            THEN \* the method call on the nil interface
                                 \* panics; the cleanup is not reached
                                 \E read \in Reads(converting, framesIn,
                                                   framesOut) :
                                 last' = [sent EXCEPT
                                    !.read = read, !.done = done,
                                    !.offered = offered,
                                    !.freed = Unfreed(WriteBuffers),
                                    !.panicked = TRUE]
                            ELSE
                            \E written \in Accepts(converting, offered) :
                            LET scaled == Scaled(written, inPerOut)
                            IN  \E read \in Reads(converting, framesIn, framesOut),
                                   werr \in Errs(converting, written, offered) :
                                last' = [sent EXCEPT
                                    !.read = read, !.done = done,
                                    !.offered = offered, !.written = written,
                                    !.sinkErr = werr, !.dest = r.destination,
                                    !.err = werr,
                                    !.freed = Cleanup(WriteBuffers, NoErr),
                                    !.n = Consumed(scaled, werr, ilen, read,
                                                   framesOut, done, plen, r)]
    /\ UNCHANGED <<running, overlapped>>

Write == WriteWith(WriteLens(r), FALSE) /\ UNCHANGED <<tally, variant>>

(***************************************************************************)
(* flush, src/resample.go:212-230: one soxr_process call without input,    *)
(* then one sink write of what it produced.  The outcomes of a flush are   *)
(* records of what the engine and the sink reported and the error flush    *)
(* returns.                                                                *)
(***************************************************************************)
NoFlush ==
    [flushed |-> FALSE, framesOut |-> 0,
     soxErr |-> NoErr, done |-> 0, left |-> 0,
     offered |-> 0, written |-> 0, sinkErr |-> NoErr, dest |-> NIL,
     err |-> NoErr, allocated |-> {}, freed |-> <<>>, aborted |-> FALSE,
     panicked |-> FALSE]

FlushOutcomes(rr) ==
    {[NoFlush EXCEPT !.flushed = TRUE, !.framesOut = FlushFramesOut,
                     !.soxErr = ErrSoxr, !.err = ErrSoxr,
                     !.allocated = FlushBuffers,
                     !.freed = Cleanup(FlushBuffers, ErrSoxr),
                     !.aborted = aborted] : aborted \in FreeAborts(ErrSoxr)}
    \cup
    {[NoFlush EXCEPT !.flushed = TRUE, !.framesOut = FlushFramesOut,
                     !.done = d,
                     !.offered = d * rr.channels * rr.frameSize,
                     !.allocated = FlushBuffers,
                     !.freed = Unfreed(FlushBuffers),
                     !.panicked = TRUE] : d \in {x \in FlushDoneChoices :
                                                   NoSink(rr)}}
    \cup
    UNION {UNION {{[flushed |-> TRUE, framesOut |-> FlushFramesOut,
                    soxErr |-> NoErr, done |-> d,
                    left |-> l,
                    offered |-> d * rr.channels * rr.frameSize,
                    written |-> w, sinkErr |-> e, dest |-> rr.destination,
                    err |-> e, allocated |-> FlushBuffers,
                    freed |-> Cleanup(FlushBuffers, NoErr),
                    aborted |-> FALSE, panicked |-> FALSE] :
                      e \in SinkErrors(w, d * rr.channels * rr.frameSize),
                      l \in FlushLeftChoices(d)} :
                  w \in AcceptChoices(d * rr.channels * rr.frameSize)} :
           d \in {x \in FlushDoneChoices : ~NoSink(rr)}}

\* a Reset or Close that does not keep the error of its flush
WithFlushErrorDropped(call, f) ==
    [call EXCEPT !.framesOut = f.framesOut,
                 !.soxErr = f.soxErr, !.done = f.done, !.left = f.left,
                 !.offered = f.offered, !.written = f.written,
                 !.sinkErr = f.sinkErr, !.dest = f.dest,
                 !.allocated = f.allocated, !.freed = f.freed,
                 !.aborted = f.aborted, !.panicked = f.panicked]

\* what a Reset or Close records of the flush it performed
WithFlush(call, f) ==
    [call EXCEPT !.framesOut = f.framesOut,
                 !.soxErr = f.soxErr, !.done = f.done, !.left = f.left,
                 !.offered = f.offered, !.written = f.written,
                 !.sinkErr = f.sinkErr, !.dest = f.dest, !.err = f.err,
                 !.allocated = f.allocated, !.freed = f.freed,
                 !.aborted = f.aborted, !.panicked = f.panicked]

\* whether the flush with the outcome f returned to the Reset or Close that
\* ran it
FlushReturned(f) == ~f.aborted /\ ~f.panicked

\* the engine calls of a Reset or Close whose flush had the outcome f, the
\* call after the flush being then: none when the flush did not return
CallsAfter(f, then) ==
    IF ~FlushReturned(f) THEN <<"flush">>
    ELSE IF f.flushed THEN <<"flush", then>>
    ELSE <<then>>

\* a Resampler that flushes in both modes
FlushesAlways(rr) == FlushOutcomes(rr)

\* a Resampler that never flushes
FlushesNever(rr) == {NoFlush}

\* the flush of Reset and Close, made in stream mode only,
\* src/resample.go:133-135 and :148-150
Flushes(rr) == IF rr.stream THEN FlushOutcomes(rr) ELSE {NoFlush}

(***************************************************************************)
(* Reset, src/resample.go:128-139.                                         *)
(***************************************************************************)
\* a Reset that also drops the handle
RedirectedAndDropped(rr, writer) ==
    [rr EXCEPT !.destination = writer, !.resampler = NIL]

\* a Reset that keeps the destination it had
NotRedirected(rr, writer) == rr

\* the Resampler with its new destination, src/resample.go:136
Redirected(rr, writer) == [rr EXCEPT !.destination = writer]

\* Reset with its writer drawn from writers
ResetWith(writers) ==
    /\ constructed /\ ProcessRuns
    /\ \E writer \in writers :
        LET call == [NoCall EXCEPT !.op = "Reset", !.writer = writer]
        IN  IF IsClosed(r)
            THEN /\ last' = [call EXCEPT !.err = ErrClosed]
                 /\ UNCHANGED <<r, constructed, engine>>
            ELSE \E f \in Flushes(r) :
                 /\ r' = IF FlushReturned(f) THEN Redirected(r, writer)
                         ELSE r
                 /\ engine' = [Used(engine) EXCEPT
                                   !.ended = ~FlushReturned(f)]
                 /\ last' = [WithFlush(call, f) EXCEPT
                                 !.calls = CallsAfter(f, "clear")]
                 /\ UNCHANGED constructed
    /\ UNCHANGED <<running, overlapped, tally>>

Reset == ResetWith(Sinks) /\ UNCHANGED variant

\* Reset called with any writer, the nil one too
AnyWriters == Sinks \cup {NIL}
ResetAny == ResetWith(AnyWriters) /\ UNCHANGED variant

(***************************************************************************)
(* Close, src/resample.go:143-154.                                         *)
(***************************************************************************)
\* a Close that leaves the handle in place
Unreleased(rr, ferr) == rr

\* a Close that gives up when its flush fails
ReleasedUnlessFlushFailed(rr, ferr) ==
    IF ferr # NoErr THEN rr ELSE [rr EXCEPT !.resampler = NIL]

\* the Resampler after a Close whose flush returned ferr: the handle is
\* deleted and set to nil whatever ferr is, src/resample.go:148-152
Released(rr, ferr) == [rr EXCEPT !.resampler = NIL]

\* Close, its flush having one of the outcomes flushes
CloseWith(flushes) ==
    /\ constructed /\ ProcessRuns
    /\ LET call == [NoCall EXCEPT !.op = "Close"]
       IN  IF IsClosed(r)
           THEN /\ last' = [call EXCEPT !.err = ErrClosed]
                /\ UNCHANGED <<r, constructed, engine>>
           ELSE \E f \in flushes :
                /\ r' = IF FlushReturned(f) THEN Released(r, f.err) ELSE r
                /\ engine' = [Used(engine) EXCEPT
                                  !.deleted = IF FlushReturned(f) THEN @ + 1
                                              ELSE @,
                                  !.ended = @ \/ f.flushed]
                /\ last' = [WithFlush(call, f) EXCEPT
                                !.calls = CallsAfter(f, "delete")]
                /\ UNCHANGED constructed
    /\ UNCHANGED <<running, overlapped>>

Close == CloseWith(Flushes(r)) /\ UNCHANGED <<tally, variant>>

Next == New \/ Write \/ Reset \/ Close

Spec == Init /\ [][Next]_vars

\* the calls with any writer passed to Reset
NextAnySink == New \/ Write \/ ResetAny \/ Close

SpecAnySink == Init /\ [][NextAnySink]_vars

\* the calls of New taken alone, over all the arguments
SpecNew == Init /\ [][NewAny]_vars

(***************************************************************************)
(* The methods called from two goroutines with no lock around them.  Each  *)
(* call is cut at its accesses to r and to the engine: the nil check, the  *)
(* engine calls, the assignments to r.destination and r.resampler.  An     *)
(* engine call passes the handle that r.resampler holds when it is made.   *)
(***************************************************************************)
\* an open Resampler, as New returned it, shared by the goroutines
InitConcurrent ==
    /\ \E stream \in BOOLEAN, writer \in Sinks :
          r = [resampler |-> "soxr", inRate |-> 1, outRate |-> 1,
               channels |-> 1, frameSize |-> SizeOf(I16), stream |-> stream,
               destination |-> writer]
    /\ constructed = TRUE
    /\ engine = [created |-> 1, deleted |-> 0, ended |-> FALSE, fault |-> FALSE]
    /\ last = NoCall
    /\ running = [t \in Threads |-> Idle]
    /\ overlapped = FALSE
    /\ tally = NoTally
    /\ variant = NoVariant

\* the engine after a call made with the handle rr.resampler holds: libsoxr
\* returns at once on a null handle
HandleUsed(eng, rr) == IF IsClosed(rr) THEN eng ELSE Used(eng)

\* goroutine t moves on to statement at, or returns
Goto(t, at) == running' = [running EXCEPT ![t].at = at]
Return(t) == running' = [running EXCEPT ![t] = Idle]

\* the nil check that opens Write, Reset and Close, src/resample.go:130,
\* 145, 163
Enter(t) ==
    /\ running[t] = Idle
    /\ \E op \in {"Write", "Reset", "Close"}, writer \in Sinks :
          LET call == [NoCall EXCEPT !.op = op]
          IN  IF IsClosed(r)
              THEN /\ last' = [call EXCEPT !.err = ErrClosed]
                   /\ UNCHANGED running
              ELSE /\ last' = call
                   /\ running' = [running EXCEPT ![t] =
                         [op |-> op, at |-> "entered",
                          writer |-> IF op = "Reset" THEN writer ELSE NIL]]
    /\ overlapped' = (overlapped \/ \E u \in Threads \ {t} : running[u] # Idle)
    /\ UNCHANGED <<r, constructed, engine, tally, variant>>

\* the flush of Reset and Close, src/resample.go:133-135, 148-150 and :219
FlushStep(t) ==
    /\ running[t].op \in {"Reset", "Close"} /\ running[t].at = "entered"
    /\ engine' = IF r.stream THEN [HandleUsed(engine, r) EXCEPT !.ended = TRUE]
                 ELSE engine
    /\ last' = [NoCall EXCEPT !.op = running[t].op,
                    !.calls = IF r.stream THEN <<"flush">> ELSE <<>>,
                    !.dest = IF r.stream THEN r.destination ELSE NIL]
    /\ Goto(t, "flushed")
    /\ UNCHANGED <<r, constructed, overlapped, tally, variant>>

\* r.destination = writer, src/resample.go:136
ResetAssign(t) ==
    /\ running[t].op = "Reset" /\ running[t].at = "flushed"
    /\ r' = Redirected(r, running[t].writer)
    /\ last' = [NoCall EXCEPT !.op = "Reset", !.writer = running[t].writer]
    /\ Goto(t, "redirected")
    /\ UNCHANGED <<constructed, engine, overlapped, tally, variant>>

\* soxr_clear and the return of Reset, src/resample.go:137-138
ResetClear(t) ==
    /\ running[t].op = "Reset" /\ running[t].at = "redirected"
    /\ engine' = [HandleUsed(engine, r) EXCEPT !.ended = FALSE]
    /\ last' = [NoCall EXCEPT !.op = "Reset", !.calls = <<"clear">>]
    /\ Return(t)
    /\ UNCHANGED <<r, constructed, overlapped, tally, variant>>

\* soxr_delete, src/resample.go:151; on a null handle it does nothing
CloseDelete(t) ==
    /\ running[t].op = "Close" /\ running[t].at = "flushed"
    /\ engine' = IF IsClosed(r) THEN engine
                 ELSE [Used(engine) EXCEPT !.deleted = @ + 1]
    /\ last' = [NoCall EXCEPT !.op = "Close", !.calls = <<"delete">>]
    /\ Goto(t, "deleted")
    /\ UNCHANGED <<r, constructed, overlapped, tally, variant>>

\* r.resampler = nil and the return of Close, src/resample.go:152-153
CloseNil(t) ==
    /\ running[t].op = "Close" /\ running[t].at = "deleted"
    /\ r' = Released(r, NoErr)
    /\ last' = [NoCall EXCEPT !.op = "Close"]
    /\ Return(t)
    /\ UNCHANGED <<constructed, engine, overlapped, tally, variant>>

\* the soxr_process call of a Write of one frame, src/resample.go:190
WriteProcess(t) ==
    /\ running[t].op = "Write" /\ running[t].at = "entered"
    /\ engine' = [HandleUsed(engine, r) EXCEPT
                     !.ended = @ \/ InputLen(1, r) < 0]
    /\ last' = [NoCall EXCEPT !.op = "Write", !.len = FrameBytes(r),
                    !.framesIn = 1, !.ilen = InputLen(1, r),
                    !.calls = <<"process">>]
    /\ Goto(t, "processed")
    /\ UNCHANGED <<r, constructed, overlapped, tally, variant>>

\* the write to r.destination and the return of Write,
\* src/resample.go:195-208
WriteSink(t) ==
    /\ running[t].op = "Write" /\ running[t].at = "processed"
    /\ last' = [NoCall EXCEPT !.op = "Write", !.len = FrameBytes(r),
                    !.dest = r.destination, !.n = FrameBytes(r)]
    /\ Return(t)
    /\ UNCHANGED <<r, constructed, engine, overlapped, tally, variant>>

NextConcurrent ==
    \E t \in Threads :
        \/ Enter(t)
        \/ FlushStep(t)
        \/ ResetAssign(t)
        \/ ResetClear(t)
        \/ CloseDelete(t)
        \/ CloseNil(t)
        \/ WriteProcess(t)
        \/ WriteSink(t)

SpecConcurrent == InitConcurrent /\ [][NextConcurrent]_vars

(***************************************************************************)
(* Properties.                                                             *)
(***************************************************************************)
\* a Close on an open Resampler has returned
CloseReturned == constructed /\ engine.deleted > 0
\* the lifecycle state
Open == constructed /\ r.resampler # NIL
Closed == constructed /\ r.resampler = NIL
\* the last call was a Write that reached soxr_process, and the sink
ReachedEngine == last.op = "Write" /\ last.calls # <<>>
ReachedSink == ReachedEngine /\ last.soxErr = NoErr

\* C1: once a Close on an open Resampler has returned, every later Write
\* (the empty one too), Reset and Close returns "soxr resampler is nil",
\* with count 0, in both modes.
C1_ClosedRejectsAll ==
    [][CloseReturned =>
          /\ last'.op \in {"Write", "Reset", "Close"}
          /\ last'.err = ErrClosed
          /\ last'.n = 0]_vars

C1_Witness ==
    /\ CloseReturned
    /\ last.op = "Write" /\ last.len = 0 /\ last.err = ErrClosed

\* C2: the engine is deleted at most once and no engine operation is ever
\* made on a deleted engine.
C2_SingleRelease == engine.deleted <= 1 /\ ~engine.fault

C2_Witness ==
    engine.deleted = 1 /\ last.op = "Close" /\ last.err = ErrClosed

\* C3: a Close on an open Resampler deletes the engine and leaves the
\* Resampler closed whatever its flush did, and returns the error of the
\* flush (the engine's, else the sink's).
C3_CloseAlwaysReleases ==
    [][(Open /\ last'.op = "Close") =>
          /\ Closed'
          /\ engine'.deleted = engine.deleted + 1
          /\ last'.calls[Len(last'.calls)] = "delete"
          /\ last'.err = (IF last'.soxErr # NoErr THEN last'.soxErr
                          ELSE last'.sinkErr)]_vars

C3_Witness ==
    /\ last.op = "Close" /\ last.err = ErrSink /\ last.written < last.offered
    /\ Closed /\ engine.deleted = 1

\* C4: New returns an open Resampler; only Close changes the lifecycle
\* state, from open to closed; Write and Reset leave it as it is whatever
\* they return; a closed Resampler stays closed.
C4_Lifecycle ==
    [][/\ (last'.op = "New" /\ constructed') => Open'
       /\ (constructed /\ last'.op \in {"Write", "Reset"}) =>
              r'.resampler = r.resampler
       /\ (constructed /\ r'.resampler # r.resampler) =>
              (last'.op = "Close" /\ Open /\ Closed')
       /\ Closed => Closed']_vars

C4_Witness ==
    Closed /\ last.op = "Reset" /\ last.err = ErrClosed

\* C5: a Write of whole frames, all of which the engine read and all of
\* whose output the sink accepted without error, returns (len(p), nil).
C5_FullCount ==
    (/\ ReachedSink
     /\ last.len = last.plen
     /\ last.read = last.framesIn
     /\ last.sinkErr = NoErr /\ last.written = last.offered)
    => (last.n = last.len /\ last.err = NoErr)

\* C6: when the engine read fewer frames than Write submitted, the count
\* returned is floor(written * inRate / outRate), in both modes.
C6_ScaledWhenShortRead ==
    (ReachedSink /\ last.read < last.framesIn)
    => last.n = FloorScale(last.written, r.inRate, r.outRate)

\* C7 as stated: when the sink returns an error, Write returns that error
\* and the count floor(accepted * inRate / outRate), never the full input
\* length.
C7_SinkErrorCount ==
    (ReachedSink /\ last.sinkErr # NoErr)
    => /\ last.err = last.sinkErr
       /\ last.n = FloorScale(last.written, r.inRate, r.outRate)
       /\ last.n # last.len

\* C7 as amended: when the sink returns an error, Write returns that error
\* and a count that is floor(accepted * inRate / outRate) or one less (the
\* float64 product may fall just below an integer), and that is below the
\* input length whenever the sink accepted less than it was offered.
C7_SinkErrorCountAmended ==
    (ReachedSink /\ last.sinkErr # NoErr)
    => /\ last.err = last.sinkErr
       /\ last.n <= FloorScale(last.written, r.inRate, r.outRate)
       /\ last.n >= FloorScale(last.written, r.inRate, r.outRate) - 1
       /\ last.n >= 0
       /\ (last.written < last.offered => last.n < last.len)

C7_Witness ==
    /\ ReachedSink /\ last.sinkErr = ErrSink /\ last.err = ErrSink
    /\ last.written > 0 /\ last.written < last.offered
    /\ last.n > 0

\* C8: the count a Write returns is between 0 and len(p).
C8_CountInRange ==
    last.op = "Write" => (0 <= last.n /\ last.n <= last.len)

C8_Witness ==
    ReachedSink /\ 0 < last.n /\ last.n < last.len

\* C9: a Write that returns less than len(p) returns a non-nil error.
C9_ShortCountHasError ==
    (last.op = "Write" /\ last.n < last.len) => last.err # NoErr

\* C10: a buffer of k >= 1 whole frames and a trailing fragment is not
\* rejected for its fragment, reaches the engine with exactly k frames, and
\* a successful Write of it returns k * frameBytes.
C10_FragmentDropped ==
    (/\ last.op = "Write" /\ last.err # ErrClosed
     /\ last.len >= FrameBytes(r)
     /\ last.len % FrameBytes(r) # 0)
    => /\ last.err # ErrIncomplete
       /\ (ReachedEngine => last.framesIn = last.len \div FrameBytes(r))
       /\ (last.err = NoErr =>
              last.n = (last.len \div FrameBytes(r)) * FrameBytes(r))

\* C11: the count a Write returns, with or without an error, is a whole
\* multiple of the frame size channels * frameSize and is not above the
\* bytes of the whole frames handed to the engine.
C11_WholeFramesCounted ==
    last.op = "Write"
    => /\ last.n % FrameBytes(r) = 0
       /\ last.n <= last.plen

\* C12: on an open Resampler a Write of a non-empty buffer shorter than one
\* frame returns 0 and "Incomplete input frame data", and reaches neither
\* the engine nor the sink.
C12_ShortBufferRejected ==
    [][(/\ Open /\ last'.op = "Write"
        /\ 0 < last'.len /\ last'.len < FrameBytes(r))
       => /\ last'.n = 0
          /\ last'.err = ErrIncomplete
          /\ last'.calls = <<>> /\ last'.dest = NIL]_vars

C12_Witness ==
    /\ Open /\ last.op = "Write" /\ last.err = ErrIncomplete
    /\ last.len = FrameBytes(r) - 1 /\ last.len > 0 /\ last.n = 0

\* C13: on an open Resampler a Write of framesIn >= 1 whole frames returns
\* 0 and "Not enough input to generate output" exactly when
\* floor(framesIn * outRate / inRate) = 0, and else asks the engine for
\* exactly floor(framesIn * outRate / inRate) output frames.
C13_FramesOutIsFloor ==
    [][(Open /\ last'.op = "Write" /\ last'.len >= FrameBytes(r))
       => LET framesIn == last'.len \div FrameBytes(r)
              floor == FloorScale(framesIn, r.outRate, r.inRate)
          IN  IF floor = 0
              THEN /\ last'.n = 0 /\ last'.err = ErrNotEnough
                   /\ last'.calls = <<>>
              ELSE /\ last'.err # ErrNotEnough
                   /\ last'.calls = <<"process">>
                   /\ last'.framesOut = floor]_vars

\* C14: on an open Resampler a Write of an empty buffer returns (0, nil),
\* calls neither the engine nor the sink and leaves the Resampler and the
\* engine as they were.
C14_EmptyWriteNoOp ==
    [][(Open /\ last'.op = "Write" /\ last'.len = 0)
       => /\ last'.n = 0 /\ last'.err = NoErr
          /\ last'.calls = <<>> /\ last'.dest = NIL /\ last'.written = 0
          /\ r' = r /\ engine' = engine]_vars

C14_Witness ==
    /\ Open /\ last.op = "Write" /\ last.len = 0
    /\ last.err = NoErr /\ last.n = 0 /\ engine.ended

\* the call just made handed input frames to the engine
InputSubmitted == last.op = "Write" /\ last.calls = <<"process">>

\* C15: in non-stream mode every Write that reaches the engine notifies the
\* end of input, and no Write hands input to an engine that was notified
\* of the end of input and has not been cleared by a Reset since.
C15_ResetBetweenWrites ==
    [][(Open /\ ~r.stream /\ InputSubmitted')
       => /\ last'.ilen < 0
          /\ ~engine.ended]_vars

\* C16: in stream mode a Write never notifies the end of input, a flush is
\* followed at once by the clear of Reset or the delete of Close (by
\* nothing when the process aborts in the flush), and no input is handed to
\* an engine that was flushed and not cleared.
C16_NoInputAfterFlush ==
    [][/\ (Open /\ r.stream /\ InputSubmitted')
          => /\ last'.ilen = last'.framesIn /\ last'.ilen >= 0
             /\ ~engine.ended /\ ~engine'.ended
       /\ \A k \in 1..Len(last'.calls) :
             last'.calls[k] = "flush"
             => IF last'.aborted THEN k = Len(last'.calls)
                ELSE /\ k < Len(last'.calls)
                     /\ last'.calls[k + 1] \in {"clear", "delete"}
       /\ (constructed /\ r.stream /\ engine.ended) => last'.calls = <<>>]_vars

C16_Witness ==
    /\ Open /\ r.stream /\ ~engine.ended
    /\ last.op = "Reset" /\ last.calls = <<"flush", "clear">>
    /\ last.done > 0 /\ last.written = last.offered

\* the call just made ran a flush whose process call and sink write both
\* succeeded
Flushed ==
    /\ last.op \in {"Reset", "Close"}
    /\ last.calls # <<>> /\ last.calls[1] = "flush"
    /\ last.err = NoErr

\* C17: a flush drains the engine: when it has succeeded the engine holds
\* no output frame any more, every frame it held having been written to
\* the sink before the engine is cleared or deleted.
C17_FlushDrains == Flushed => last.left = 0

C19_ResetDespiteFlushError ==
    [][(/\ Open /\ r.stream /\ last'.op = "Reset"
        /\ (last'.soxErr # NoErr \/ last'.sinkErr # NoErr))
       => /\ last'.err = (IF last'.soxErr # NoErr THEN last'.soxErr
                          ELSE last'.sinkErr)
          /\ r'.destination = last'.writer
          /\ last'.calls = <<"flush", "clear">>
          /\ Open' /\ ~engine'.ended /\ ~engine'.fault
          /\ r' = [r EXCEPT !.destination = last'.writer]]_vars

C19_Witness ==
    /\ Open /\ r.stream /\ last.op = "Reset"
    /\ last.err = ErrSoxr /\ last.soxErr = ErrSoxr
    /\ last.writer = "w2" /\ r.destination = "w2"
    /\ last.calls = <<"flush", "clear">> /\ ~engine.ended

\* C20: the sink written during a call is the one installed when the call
\* began, so the flush of Reset(w) goes to the sink installed before it;
\* a Reset(w) that returns on an open Resampler has installed w, and no
\* other call changes the installed sink, so all later output goes to w
\* until the next Reset.
C20_SinkSwitch ==
    [][/\ (constructed /\ last'.dest # NIL) => last'.dest = r.destination
       /\ (Open /\ last'.op = "Reset" /\ ~last'.aborted)
             => r'.destination = last'.writer
       /\ (constructed /\ last'.op # "Reset")
             => r'.destination = r.destination]_vars

C20_Witness ==
    /\ Open /\ last.op = "Reset" /\ last.writer = "w2"
    /\ last.dest = "w1" /\ last.written > 0
    /\ r.destination = "w2"

(***************************************************************************)
(* Properties of New.                                                      *)
(***************************************************************************)
\* New has returned; which of its arguments were invalid
NewReturned == last.op = "New"
BadSink == last.writer = NIL
BadRates == last.inRate <= 0 \/ last.outRate <= 0
BadQuality == last.quality < 0 \/ last.quality > 6
BadFormat == last.format \notin {F32, F64, I32, I16}
\* New has returned no Resampler and has not called soxr_create
Refused == ~constructed /\ engine.created = 0 /\ last.calls = <<>>

\* C23: when an argument of New is invalid (nil sink, a rate <= 0, channels
\* 0, quality below 0 or above 6, format not one of the four), New returns
\* no Resampler and the error of an invalid argument, and soxr_create is
\* not called.
C23_InvalidRefused ==
    (NewReturned /\ (BadSink \/ BadRates \/ last.channels = 0 \/ BadQuality
                     \/ BadFormat))
    => /\ Refused
       /\ \/ BadSink /\ last.err = ErrNilWriter
          \/ BadRates /\ last.err = ErrRates
          \/ last.channels = 0 /\ last.err = ErrChannels
          \/ BadQuality /\ last.err = ErrQuality
          \/ BadFormat /\ last.err = ErrFormat

C23_Witness ==
    /\ NewReturned /\ BadFormat /\ last.err = ErrFormat /\ Refused
    /\ ~BadSink /\ ~BadRates /\ last.channels = 2 /\ ~BadQuality

\* C24: New returns "Invalid channels number" for every channel count that
\* is 0 or negative when its other arguments are valid, and every
\* Resampler it returns has channels >= 1.
C24_ChannelsPositive ==
    /\ (NewReturned /\ ~BadSink /\ ~BadRates /\ ~BadQuality /\ ~BadFormat
        /\ last.channels <= 0)
       => (last.err = ErrChannels /\ Refused)
    /\ constructed => r.channels >= 1

\* C25: New returns "Invalid quality setting" for every quality that is not
\* one of Quick, LowQ, MediumQ, HighQ, VeryHighQ, 3 and 5 included, when
\* its other arguments are valid.
C25_QualityDiscrete ==
    (NewReturned /\ ~BadSink /\ ~BadRates /\ last.channels >= 1 /\ ~BadFormat
     /\ last.quality \notin {Quick, LowQ, MediumQ, HighQ, VeryHighQ})
    => (last.err = ErrQuality /\ Refused)

\* C26: when several arguments are invalid New returns the error of the
\* first failing check in the order sink, rates, channels, quality, format.
C26_FirstErrorWins ==
    NewReturned
    => /\ BadSink => last.err = ErrNilWriter
       /\ (~BadSink /\ BadRates) => last.err = ErrRates
       /\ (~BadSink /\ ~BadRates /\ last.channels = 0)
             => last.err = ErrChannels
       /\ (~BadSink /\ ~BadRates /\ last.channels # 0 /\ BadQuality)
             => last.err = ErrQuality
       /\ (~BadSink /\ ~BadRates /\ last.channels # 0 /\ ~BadQuality
           /\ BadFormat) => last.err = ErrFormat

C26_Witness ==
    /\ NewReturned /\ ~BadSink /\ last.inRate = 0 /\ last.channels = 0
    /\ BadQuality /\ BadFormat /\ last.err = ErrRates

\* C27: for valid arguments (sink not nil, rates > 0, channels >= 1, one of
\* the four formats, one of the five qualities, either mode) New returns,
\* when soxr_create succeeds, an open Resampler and a nil error, and when
\* it fails the engine's error; New returns a Resampler or an error, never
\* both and never neither.
C27_ValidAccepted ==
    NewReturned
    => /\ (/\ ~BadSink /\ ~BadRates /\ last.channels >= 1 /\ ~BadFormat
           /\ last.quality \in {Quick, LowQ, MediumQ, HighQ, VeryHighQ})
          => /\ last.calls = <<"create">>
             /\ IF last.soxErr = NoErr
                THEN Open /\ last.err = NoErr /\ engine.created = 1
                ELSE ~constructed /\ last.err = last.soxErr
       /\ constructed <=> last.err = NoErr

C27_Witness ==
    /\ NewReturned /\ Open /\ last.err = NoErr
    /\ last.quality = VeryHighQ /\ last.format = F64 /\ last.stream
    /\ last.channels = 2 /\ r.destination = "w1" /\ engine.created = 1

\* C28: the frameSize of every Resampler New returns is 8 for F64, 4 for
\* F32 and I32 and 2 for I16, and frameSize, inRate, outRate, channels and
\* stream are the same after any Write, Reset or Close as before it.
C28_FieldsFixed ==
    [][/\ (last'.op = "New" /\ constructed')
          => /\ r'.frameSize = (IF last'.format = F64 THEN 8
                                ELSE IF last'.format = I16 THEN 2 ELSE 4)
             /\ r'.frameSize \in {2, 4, 8}
       /\ constructed
          => /\ r'.frameSize = r.frameSize /\ r'.frameSize \in {2, 4, 8}
             /\ r'.inRate = r.inRate /\ r'.outRate = r.outRate
             /\ r'.channels = r.channels /\ r'.stream = r.stream]_vars

C28_Witness ==
    /\ Closed /\ r.frameSize = 8 /\ r.channels = 2 /\ r.stream
    /\ r.destination = "w2" /\ last.op = "Close"

\* C29: every C buffer a Write or a flush allocates is freed exactly once
\* before the call returns, on the engine-error and sink-error paths too;
\* a call that reaches the engine allocates its buffers, one that returns
\* before allocates none.
C29_BuffersReleased ==
    /\ DOMAIN last.freed = last.allocated
    /\ \A b \in last.allocated : last.freed[b] = 1
    /\ last.allocated =
          (IF ReachedEngine THEN WriteBuffers
           ELSE IF last.op \in {"Reset", "Close"} /\ last.calls # <<>>
                   /\ last.calls[1] = "flush" THEN FlushBuffers
           ELSE {})

C29_Witness ==
    /\ ReachedEngine /\ last.soxErr = ErrSoxr
    /\ last.allocated = {"dataIn", "dataOut"}
    /\ last.freed["dataIn"] = 1 /\ last.freed["dataOut"] = 1

\* C30: two goroutines that call the methods of one Resampler without
\* serialization can use or release the engine after it has been released
\* (Close with Write, with Reset or with Close); as long as no call begins
\* while another is in progress this does not happen.
C30_FaultNeedsOverlap == engine.fault => overlapped

C30_Witness ==
    /\ engine.fault /\ engine.deleted = 1 /\ overlapped
    /\ \E t, u \in Threads :
          /\ running[t].op = "Close" /\ running[t].at = "deleted"
          /\ running[u].op = "Write" /\ running[u].at = "processed"

(***************************************************************************)
(* One conversion, from the first Write to the Close, with the engine and  *)
(* the sink of a conversion.                                               *)
(***************************************************************************)
\* the buffers of the conversion: whole frames, up to MaxChunk of them
IdealLens(rr) == {k * FrameBytes(rr) : k \in 1..MaxChunk}

\* the flush of Close, when there is one, with this engine and this sink
IdealFlushes(rr) ==
    IF Flushes(rr) = {NoFlush} THEN {NoFlush}
    ELSE LET done == Min(Owed(tally.taken), FlushFramesOut)
             bytes == done * rr.channels * rr.frameSize
         IN  {[flushed |-> TRUE, framesOut |-> FlushFramesOut,
               soxErr |-> NoErr, done |-> done,
               left |-> Owed(tally.taken) - done, offered |-> bytes,
               written |-> bytes, sinkErr |-> NoErr,
               dest |-> rr.destination, err |-> NoErr,
               allocated |-> FlushBuffers,
               freed |-> Cleanup(FlushBuffers, NoErr), aborted |-> FALSE,
               panicked |-> FALSE]}

InitIdeal ==
    /\ \E rates \in {p \in RatePairs : NewError("w1", p[1], p[2], 1, I16,
                                                MediumQ) = NoErr},
          channels \in {1, 2}, stream \in BOOLEAN :
          r = [resampler |-> "soxr", inRate |-> rates[1],
               outRate |-> rates[2], channels |-> channels,
               frameSize |-> SizeOf(I16), stream |-> stream,
               destination |-> "w1"]
    /\ constructed = TRUE
    /\ engine = [created |-> 1, deleted |-> 0, ended |-> FALSE, fault |-> FALSE]
    /\ last = NoCall
    /\ running = [t \in Threads |-> Idle]
    /\ overlapped = FALSE
    /\ tally = NoTally
    /\ variant = NoVariant

\* a Write of the conversion: the caller goes on while its Writes succeed
\* and, having told the engine that the input has ended, writes no more
IdealWrite ==
    /\ ~tally.failed /\ ~engine.ended
    /\ tally.submitted < MaxTotal * FrameBytes(r)
    /\ WriteWith(IdealLens(r), TRUE)
    /\ last'.calls # <<>> =>
          last'.done \in IdealDoneAfter(last'.read, last'.framesIn,
                                        last'.framesOut)
    /\ tally' = [submitted |-> tally.submitted + last'.n,
                 taken |-> tally.taken + last'.read,
                 given |-> tally.given + last'.done,
                 delivered |-> tally.delivered + last'.written,
                 failed |-> last'.err # NoErr]
    /\ UNCHANGED variant

\* the Close that ends the conversion
IdealClose ==
    /\ ~IsClosed(r)
    /\ CloseWith(IdealFlushes(r))
    /\ tally' = [tally EXCEPT !.given = @ + last'.done,
                              !.delivered = @ + last'.written]
    /\ UNCHANGED variant

NextIdeal == IdealWrite \/ IdealClose

SpecIdeal == InitIdeal /\ [][NextIdeal]_vars

\* the conversion is over: every Write and the Close have succeeded
Converted ==
    /\ Closed /\ last.op = "Close" /\ last.err = NoErr /\ ~tally.failed
    /\ tally.submitted > 0
\* |a - b|
Distance(a, b) == IF a >= b THEN a - b ELSE b - a

\* C21: with equal rates, the bytes the sink has received when N whole
\* frames have been written and the Resampler closed are those of N frames,
\* give or take 2 frames.
C21_RoundTrip ==
    (Converted /\ r.inRate = r.outRate)
    => Distance(tally.delivered, tally.submitted) <= 2 * FrameBytes(r)

C21_Witness ==
    /\ Converted /\ r.inRate = r.outRate /\ r.stream
    /\ last.done = MaxLatency /\ tally.submitted = MaxChunk * FrameBytes(r)
    /\ tally.delivered = tally.submitted

\* C22: in stream mode the frames the sink has received when the input has
\* been written and the Resampler closed are outRate/inRate times the
\* frames written, give or take 2 frames, however the input was cut into
\* Writes.
C22_Scaling ==
    (Converted /\ r.stream)
    => Distance(tally.delivered \div FrameBytes(r),
                FloorScale(tally.submitted \div FrameBytes(r),
                           r.outRate, r.inRate)) <= 2

(***************************************************************************)
(* Properties of the engine-error paths.                                   *)
(***************************************************************************)
\* the call just made ran a flush
RanFlush ==
    /\ last.op \in {"Reset", "Close"}
    /\ last.calls # <<>> /\ last.calls[1] = "flush"

\* C31: when the engine reports an error in the process call of a Write,
\* the Write returns count 0 and that error and has written nothing to the
\* sink; the Resampler is open and unchanged, and the process goes on to
\* its next call.
C31_EngineErrorKeepsOpen ==
    [][(Open /\ last'.op = "Write" /\ last'.soxErr # NoErr)
       => /\ last'.n = 0 /\ last'.err = last'.soxErr
          /\ last'.dest = NIL /\ last'.written = 0
          /\ r' = r /\ Open'
          /\ ProcessRuns']_vars

\* C32: an engine error during a flush is returned by the Reset or Close
\* that ran the flush, which has written nothing to the sink; an error of
\* the sink is returned as it is; either way the Reset has cleared the
\* engine and the Close has deleted it.
C32_FlushErrorCompletes ==
    [][(Open /\ RanFlush' /\ last'.err # NoErr)
       => /\ last'.err = (IF last'.soxErr # NoErr THEN last'.soxErr
                          ELSE last'.sinkErr)
          /\ last'.soxErr # NoErr => (last'.dest = NIL /\ last'.written = 0)
          /\ last'.calls = <<"flush", IF last'.op = "Reset" THEN "clear"
                                      ELSE "delete">>
          /\ last'.op = "Close" => engine'.deleted = engine.deleted + 1
          /\ last'.op = "Reset" => ~engine'.ended]_vars

(***************************************************************************)
(* Properties of the effects of one call.                                  *)
(***************************************************************************)
\* C33: a Write that reaches the engine makes one process call and no
\* other engine call; when the engine reports no error it makes one write
\* to the installed sink, of all the bytes of the frames the engine
\* produced, which are no more than the bytes of the output buffer; when
\* the engine reports an error it makes no write to the sink.
C33_OneCallOneWrite ==
    [][(Open /\ ReachedEngine')
       => /\ last'.calls = <<"process">>
          /\ IF last'.soxErr = NoErr
             THEN /\ last'.dest = r.destination
                  /\ last'.offered = last'.done * r.channels * r.frameSize
                  /\ last'.offered <= OutputBufferBytes(last'.framesOut, r)
                  /\ last'.written <= last'.offered
             ELSE last'.dest = NIL /\ last'.offered = 0]_vars

C33_Witness ==
    /\ ReachedEngine /\ last.soxErr = NoErr /\ last.calls = <<"process">>
    /\ last.framesOut = 2 /\ last.done = 2
    /\ last.offered = OutputBufferBytes(2, r) /\ last.dest = r.destination

\* the errors of the checks Write makes of its input
InputErrors == {ErrIncomplete, ErrNotEnough}

\* C34: a Write that an open Resampler refuses for its input (less than a
\* frame, or frames that scale to no output frame) returns count 0, makes
\* no engine call, writes nothing to the sink, allocates no buffer and
\* leaves the Resampler and the engine as they were; the Write that follows
\* it, when its frames scale to an output frame or more, reaches the
\* engine.
C34_RejectedWriteNoEffect ==
    [][/\ (Open /\ last'.op = "Write" /\ last'.err \in InputErrors)
          => /\ last'.n = 0 /\ last'.calls = <<>>
             /\ last'.dest = NIL /\ last'.written = 0
             /\ last'.allocated = {}
             /\ r' = r /\ engine' = engine /\ ProcessRuns'
       /\ (Open /\ last.op = "Write" /\ last.err \in InputErrors
           /\ last'.op = "Write" /\ last'.len > last.len
           /\ last'.err \notin InputErrors)
          => ReachedEngine']_vars

C34_Witness ==
    /\ Open /\ last.op = "Write" /\ last.err = ErrNotEnough
    /\ last.framesIn >= 1 /\ last.calls = <<>> /\ last.allocated = {}
    /\ engine.created = 1 /\ ~engine.ended

\* C35: a Write, Reset or Close on a closed Resampler returns the closed
\* error and changes nothing: it makes no engine call, writes to no sink,
\* allocates no buffer, and leaves every field of the Resampler, its
\* destination included, and the engine as they were.
C35_ClosedNoEffect ==
    [][(Closed /\ last'.op \in {"Write", "Reset", "Close"})
       => /\ last'.err = ErrClosed /\ last'.n = 0
          /\ last'.calls = <<>>
          /\ last'.dest = NIL /\ last'.written = 0
          /\ last'.allocated = {}
          /\ r' = r /\ engine' = engine /\ ProcessRuns']_vars

C35_Witness ==
    /\ Closed /\ engine.deleted = 1
    /\ last.op = "Reset" /\ last.err = ErrClosed /\ last.calls = <<>>
    /\ last.writer = "w2" /\ r.destination = "w1"

\* C36: an open Resampler always has a sink: whatever writers are passed
\* to Reset, the nil one too, r.destination is never nil while the
\* Resampler is open.
C36_SinkNeverNil == Open => r.destination # NIL

(***************************************************************************)
(* The Resampler of src/unnamed/part_000, which has no stream flag, run    *)
(* beside a Resampler of src/resample.go in stream mode: both are given    *)
(* the same calls, and the engine and the sink report to the one what they *)
(* report to the other.  The buffers hold whole frames, the sink accepts   *)
(* all it is offered, and a flush leaves nothing in the engine.            *)
(***************************************************************************)
\* framesOut of flush, src/unnamed/part_000:199
VariantFlushFramesOut == 4096 * 16

\* the struct of part_000:56-63 with the fields of rr
VariantOf(rr) ==
    [resampler |-> rr.resampler, inRate |-> rr.inRate,
     outRate |-> rr.outRate, channels |-> rr.channels,
     frameSize |-> rr.frameSize, destination |-> rr.destination]

\* Write of part_000:155-192 on v, for the buffer of call, the engine and
\* the sink reporting what call records
VariantWrite(v, call) ==
    LET rr == v.r
        len == call.len
        mine == [NoCall EXCEPT !.op = "Write", !.len = len]
        framesIn == FramesIn(len, rr)
        framesOut == FramesOut(framesIn, OutPerIn(rr))
        sent == [mine EXCEPT !.plen = len, !.framesIn = framesIn,
                             !.ilen = framesIn, !.framesOut = framesOut,
                             !.calls = <<"process">>,
                             !.allocated = WriteBuffers]
    IN  IF IsClosed(rr)
        THEN [v EXCEPT !.last = [mine EXCEPT !.err = ErrClosed]]
        ELSE IF IsEmpty(len)
        THEN [v EXCEPT !.last = mine]
        ELSE IF framesIn = 0
        THEN [v EXCEPT !.last = [mine EXCEPT !.plen = len,
                                             !.err = ErrIncomplete]]
        ELSE IF framesOut = 0
        THEN [v EXCEPT !.last = [mine EXCEPT !.plen = len,
                                             !.framesIn = framesIn,
                                             !.err = ErrNotEnough]]
        ELSE IF call.soxErr # NoErr
        THEN [v EXCEPT !.engine = Used(@),
                       !.last = [sent EXCEPT
                           !.err = call.soxErr, !.soxErr = call.soxErr,
                           !.freed = Cleanup(WriteBuffers, call.soxErr),
                           !.aborted = call.aborted]]
        ELSE [v EXCEPT !.engine = Used(@),
                       !.last = [sent EXCEPT
                           !.read = call.read, !.done = call.done,
                           !.offered = Offered(call.done, rr),
                           !.written = call.written,
                           !.sinkErr = call.sinkErr,
                           !.dest = rr.destination, !.err = call.sinkErr,
                           !.freed = Cleanup(WriteBuffers, NoErr),
                           !.n = IF call.sinkErr = NoErr THEN len ELSE 0]]

\* flush of part_000:195-212 on the Resampler rr, the engine and the sink
\* reporting what call records
VariantFlush(rr, call) ==
    IF call.soxErr # NoErr
    THEN [NoFlush EXCEPT !.flushed = TRUE,
                         !.framesOut = VariantFlushFramesOut,
                         !.soxErr = call.soxErr, !.err = call.soxErr,
                         !.allocated = FlushBuffers,
                         !.freed = Cleanup(FlushBuffers, call.soxErr),
                         !.aborted = call.aborted]
    ELSE [NoFlush EXCEPT !.flushed = TRUE,
                         !.framesOut = VariantFlushFramesOut,
                         !.done = call.done, !.left = call.left,
                         !.offered = call.done * rr.channels * rr.frameSize,
                         !.written = call.written,
                         !.sinkErr = call.sinkErr,
                         !.dest = rr.destination, !.err = call.sinkErr,
                         !.allocated = FlushBuffers,
                         !.freed = Cleanup(FlushBuffers, NoErr)]

\* Reset of part_000:126-135
VariantReset(v, call) ==
    LET mine == [NoCall EXCEPT !.op = "Reset", !.writer = call.writer]
        f == VariantFlush(v.r, call)
    IN  IF IsClosed(v.r)
        THEN [v EXCEPT !.last = [mine EXCEPT !.err = ErrClosed]]
        ELSE [r |-> IF FlushReturned(f)
                    THEN [v.r EXCEPT !.destination = call.writer]
                    ELSE v.r,
              engine |-> [Used(v.engine) EXCEPT !.ended = ~FlushReturned(f)],
              last |-> [WithFlush(mine, f) EXCEPT
                           !.calls = CallsAfter(f, "clear")]]

\* Close of part_000:140-149
VariantClose(v, call) ==
    LET mine == [NoCall EXCEPT !.op = "Close"]
        f == VariantFlush(v.r, call)
    IN  IF IsClosed(v.r)
        THEN [v EXCEPT !.last = [mine EXCEPT !.err = ErrClosed]]
        ELSE [r |-> IF FlushReturned(f)
                    THEN [v.r EXCEPT !.resampler = NIL]
                    ELSE v.r,
              engine |-> [Used(v.engine) EXCEPT
                             !.deleted = IF FlushReturned(f) THEN @ + 1
                                         ELSE @,
                             !.ended = TRUE],
              last |-> [WithFlush(mine, f) EXCEPT
                           !.calls = CallsAfter(f, "delete")]]

\* the sink of the call just made accepted all it was offered, and the
\* flush of the call left nothing in the engine
SinkAccepted(call) ==
    /\ call.sinkErr = NoErr /\ call.written = call.offered
    /\ call.left = 0

\* buffers of whole frames
WholeLens(rr) == {k * FrameBytes(rr) : k \in FrameCounts(rr)}

\* two open Resamplers, as New returned them for the same arguments, the
\* one of src/resample.go in stream mode
InitPair ==
    /\ \E rates \in {p \in RatePairs : NewError("w1", p[1], p[2], 1, I16,
                                                MediumQ) = NoErr},
          channels \in {1, 2}, format \in {I16, F64} :
          r = [resampler |-> "soxr", inRate |-> rates[1],
               outRate |-> rates[2], channels |-> channels,
               frameSize |-> SizeOf(format), stream |-> TRUE,
               destination |-> "w1"]
    /\ constructed = TRUE
    /\ engine = [NoEngine EXCEPT !.created = 1]
    /\ last = NoCall
    /\ running = [t \in Threads |-> Idle]
    /\ overlapped = FALSE
    /\ tally = NoTally
    /\ variant = [r |-> VariantOf(r),
                  engine |-> [NoEngine EXCEPT !.created = 1],
                  last |-> NoCall]

PairWrite ==
    /\ WriteWith(WholeLens(r), FALSE)
    /\ SinkAccepted(last')
    /\ variant' = VariantWrite(variant, last')
    /\ UNCHANGED tally

PairReset ==
    /\ ResetWith(Sinks)
    /\ SinkAccepted(last')
    /\ variant' = VariantReset(variant, last')

PairClose ==
    /\ CloseWith(Flushes(r))
    /\ SinkAccepted(last')
    /\ variant' = VariantClose(variant, last')
    /\ UNCHANGED tally

NextPair == PairWrite \/ PairReset \/ PairClose

SpecPair == InitPair /\ [][NextPair]_vars

\* the two calls just made returned the same count and both an error or
\* both none, and wrote the same bytes to the same sink
SameOutcome(a, b) ==
    /\ a.op = b.op /\ a.n = b.n
    /\ (a.err = NoErr) = (b.err = NoErr)
    /\ a.aborted = b.aborted
    /\ a.dest = b.dest /\ a.offered = b.offered /\ a.written = b.written

\* the two calls just made made the same engine calls, but for the output
\* frames they asked for
SameEngineCalls(a, b) ==
    /\ a.calls = b.calls
    /\ a.framesIn = b.framesIn /\ a.ilen = b.ilen

\* C37: the Resampler of src/resample.go in stream mode and the one of
\* part_000 make the same engine calls (input frames, end of input, output
\* frames asked for) and the same sink writes, and return the same counts
\* and both an error or both none.
C37_SameAsVariant ==
    /\ SameOutcome(last, variant.last)
    /\ SameEngineCalls(last, variant.last)
    /\ last.framesOut = variant.last.framesOut

\* C37, amended: the same, except that a flush asks the engine for 40960
\* output frames in src/resample.go and for 65536 in part_000; the two
\* Resamplers and their engines are in the same state after every call.
C37_SameButFlushRequest ==
    /\ SameOutcome(last, variant.last)
    /\ SameEngineCalls(last, variant.last)
    /\ IF RanFlush
       THEN /\ last.framesOut = FlushFramesOut
            /\ variant.last.framesOut = VariantFlushFramesOut
       ELSE last.framesOut = variant.last.framesOut
    /\ VariantOf(r) = variant.r /\ engine = variant.engine

C37_Witness ==
    /\ Closed /\ last.op = "Close" /\ last.calls = <<"flush", "delete">>
    /\ variant.last.calls = <<"flush", "delete">>
    /\ last.done = 1 /\ last.written = last.offered /\ last.written > 0
    /\ variant.last.written = last.written
    /\ variant.last.framesOut = 65536 /\ last.framesOut = 40960
    /\ variant.r.resampler = NIL

====
